---- MODULE Spec2Model ----
(***************************************************************************)
(* A state-machine model of code/sat_solver.c: the command-line entry      *)
(* point, the subsumption pre-processor, the watch table, the undo stack,  *)
(* the two-watched-literal propagator, the pure-literal pass and the       *)
(* recursive DPLL driver.                                                  *)
(*                                                                         *)
(* Conventions.  C arrays are 0-based and TLA+ sequences 1-based: clause   *)
(* index i of the code is index i+1 here, var_sort[i] is var_sort[i+1].    *)
(* Watch-list indices (var + neg * numVars) and variable ids are kept as   *)
(* in the code.  The undo stack is a sequence whose last element is the    *)
(* head of the code's list; a checkpoint (a pointer to the head at that    *)
(* moment) is the length of the sequence at that moment.                   *)
(*                                                                         *)
(* Inputs.  Init draws the file named on the command line: every file of   *)
(* at most MaxVars variables within the literal bounds, and every file of  *)
(* at most MaxPoolClauses clause lines taken from ClausePool, and the files *)
(* of SampleFiles.  The order qsort_r gives to variables with equal counts *)
(* and the moment the timeout fires are chosen nondeterministically.       *)
(***************************************************************************)
EXTENDS Integers, Sequences, FiniteSets, TLC

(* ------------------------------ bounds -------------------------------- *)

\* largest "p cnf" variable count of the exhaustively enumerated input files
MaxVars == 2
\* largest number of clauses in an exhaustively enumerated input file
MaxClauses == 3
\* largest number of literals in one clause of such a file
MaxClauseLen == 3
\* largest number of literals in such a file
MaxLits == 5
\* largest number of clauses in an input file assembled from ClausePool
MaxPoolClauses == 4

(* ------------------------------ values -------------------------------- *)

SAT == "SAT"
UNSAT == "UNSAT"
TIMEOUT == "TIMEOUT"

ASSIGNMENT == "ASSIGNMENT"
CLAUSE_SATISFY == "CLAUSE_SATISFY"
WATCHLIST_ADD == "WATCHLIST_ADD"
WATCHLIST_REMOVE == "WATCHLIST_REMOVE"

\* "0 cannot be an actual literal": the propagator's marker for no other watcher
NoLiteral == [var |-> 0, neg |-> FALSE]

Range(s) == {s[k] : k \in 1..Len(s)}

\* parse_formula's reading of one DIMACS integer: var = abs(lit), neg = lit < 0
parse_literal(k) == [var |-> IF k < 0 THEN 0 - k ELSE k, neg |-> k < 0]

\* parse_formula's reading of one clause line (without its closing 0)
parse_clause(line) == [j \in 1..Len(line) |-> parse_literal(line[j])]

(* ------------------------------ inputs -------------------------------- *)

\* the clause sizes of a formula: at most MaxClauses clauses of at most
\* MaxClauseLen literals each
Profiles == UNION {[1..m -> 0..MaxClauseLen] : m \in 0..MaxClauses}

RECURSIVE SumSizes(_, _)
SumSizes(sizes, k) == IF k = 0 THEN 0 ELSE sizes[k] + SumSizes(sizes, k - 1)

\* the clauses of sizes `sizes` cut, in order, from the literal sequence flat
Split(flat, sizes) ==
    [i \in 1..Len(sizes) |->
        SubSeq(flat, SumSizes(sizes, i - 1) + 1, SumSizes(sizes, i))]

\* the clause-size profiles of the exhaustively enumerated input files
FormulaProfiles == {p \in Profiles : SumSizes(p, Len(p)) <= MaxLits}

\* clause lines over three variables from which further input files are
\* assembled: units, a clause that repeats a literal, a tautology, and
\* clauses long enough for a watcher to move
ClausePool ==
    << <<1>>, <<2>>, <<-1, -2, 3>>, <<-1, -3>>, <<-1, 2, 3>>, <<1, 1>>,
       <<1, 2>>, <<-3, -2, 3>> >>

\* the "p cnf" variable count of the files assembled from ClausePool: the
\* largest variable a pool clause mentions
PoolVars ==
    CHOOSE n \in 1..9 :
        /\ \E i \in 1..Len(ClausePool) : \E j \in 1..Len(ClausePool[i]) :
              parse_literal(ClausePool[i][j]).var = n
        /\ \A i \in 1..Len(ClausePool) : \A j \in 1..Len(ClausePool[i]) :
              parse_literal(ClausePool[i][j]).var <= n

\* further input files: "p cnf" variable count and clause lines
SampleFiles ==
    << [numVars |-> 3, lines |-> << <<1, 2>>, <<1, 3>>, <<1, -2, -3>>, <<-1, -2, 3>> >>],
       [numVars |-> 3, lines |-> << <<1, 2, 3>>, <<-1, -2, -3>> >>],
       [numVars |-> 4, lines |-> << <<3>>, <<-4, 1, 2>>, <<2, -3>>, <<-1>>, <<4>> >>],
       [numVars |-> 4, lines |-> << <<1>>, <<-1, 2, -3>>, <<-1, 3>> >>],
       [numVars |-> 4, lines |-> << <<-4>>, <<2, -1, 1>>, <<-1, -1, -3>>, <<4, 1>>, <<-2>> >>],
       [numVars |-> 4, lines |-> << <<-4>>, <<2, -1, 4>>, <<1>>, <<-1, 3, 2>>, <<-2>> >>],
       [numVars |-> 3, lines |-> << <<1, 2>>, <<-1, 3>>, <<1, -2, -3>> >>],
       [numVars |-> 2, lines |-> << <<1>>, <<-1, -1, -2>> >>] >>

\* the value of `file` when main opens no file
NoFile == [numVars |-> 0, clauses |-> <<>>]

(* ------------------------------ state --------------------------------- *)

VARIABLES
    pc,           \* control location of main / dpll / the propagator
    argc,         \* main's argc
    openable,     \* whether fopen(argv[1]) succeeds
    file,         \* the content of the file argv[1] names
    out,          \* the lines printed on standard output, in order
    exit_code,    \* main's return value (-1 while running)
    numVars,      \* formula->numVars
    parsed,       \* the clauses as parse_formula returned them
    clauses,      \* formula->clauses (after remove_supersets)
    satisfied,    \* clauses[i].satisfied
    watch_lists,  \* wtable->watch_lists
    var_sort,     \* the static variable order
    assignments,  \* the assignment vector
    undo_stack,   \* the undo stack (last element = head)
    frames,       \* the active dpll invocations, outermost first
    queue,        \* the propagator's work queue
    oplit,        \* the propagator's current opposite literal
    pos,          \* the propagator's position i in the visited watch list
    result,       \* the value the last dpll invocation returned
    prev          \* verdict and assignment vector of an earlier run on `file`

vars == <<pc, argc, openable, file, out, exit_code, numVars, parsed, clauses,
          satisfied, watch_lists, var_sort, assignments, undo_stack, frames,
          queue, oplit, pos, result, prev>>

io_vars == <<argc, openable, file, out, exit_code, prev>>

formula_vars == <<numVars, parsed, clauses, var_sort>>

search_vars == <<satisfied, watch_lists, assignments, undo_stack>>

prop_vars == <<queue, oplit, pos>>

Vars == 1..numVars

(* --------------------------- pure helpers ----------------------------- *)

watchlist_index(lit) == lit.var + (IF lit.neg THEN numVars ELSE 0)

lit_key(lit) == IF lit.neg THEN 0 - lit.var ELSE lit.var

\* the literal evaluates true / false under assignment vector a (-1 unassigned)
is_true(lit, a) == (a[lit.var] = 0 /\ lit.neg) \/ (a[lit.var] = 1 /\ ~lit.neg)

is_false(lit, a) == (a[lit.var] = 0 /\ ~lit.neg) \/ (a[lit.var] = 1 /\ lit.neg)

\* a variant that takes any assigned literal for a true one
has_assigned_literal(clause, a) == \E j \in 1..Len(clause) : a[clause[j].var] # -1

has_true_literal(clause, a) == \E j \in 1..Len(clause) : is_true(clause[j], a)

\* a variant that tests the keys of b against those of a
clause_subset_swapped(a, b) ==
    \A i \in 1..Len(b) : \E j \in 1..Len(a) : lit_key(a[j]) = lit_key(b[i])

\* clause_subset(a, b): every key of a is among the keys of b
clause_subset(a, b) ==
    \A i \in 1..Len(a) : \E j \in 1..Len(b) : lit_key(b[j]) = lit_key(a[i])

\* a variant of the inner j loop that does not skip removed clauses
subsumed_by_any(cls, marked, i) ==
    \E j \in 1..Len(cls) :
        /\ i # j
        /\ Len(cls[i]) >= Len(cls[j])
        /\ clause_subset(cls[j], cls[i])

\* the inner j loop of remove_supersets for clause i, given the marks so far
subsumed(cls, marked, i) ==
    \E j \in 1..Len(cls) :
        /\ i # j
        /\ j \notin marked
        /\ Len(cls[i]) >= Len(cls[j])
        /\ clause_subset(cls[j], cls[i])

\* the marking loop of remove_supersets: the set of indices marked after
\* clauses 1..i have been processed in order
RECURSIVE remove_marked(_, _)
remove_marked(cls, i) ==
    IF i = 0 THEN {}
    ELSE LET before == remove_marked(cls, i - 1)
         IN  IF subsumed(cls, before, i) THEN before \cup {i} ELSE before

\* the compaction loop: the unmarked clauses among the first i, in order
RECURSIVE compact(_, _, _)
compact(cls, marked, i) ==
    IF i = 0 THEN <<>>
    ELSE IF i \in marked THEN compact(cls, marked, i - 1)
         ELSE Append(compact(cls, marked, i - 1), cls[i])

remove_supersets(cls) == compact(cls, remove_marked(cls, Len(cls)), Len(cls))

\* the watch table main builds: first literal, and second literal if any
RECURSIVE init_watch_table(_, _)
init_watch_table(cls, i) ==
    IF i = 0 THEN [w \in 0..(2 * numVars) |-> <<>>]
    ELSE LET wt == init_watch_table(cls, i - 1)
             c  == cls[i]
         IN  IF Len(c) = 0 THEN wt
             ELSE IF Len(c) = 1
                  THEN [wt EXCEPT ![watchlist_index(c[1])] = Append(@, i)]
                  ELSE LET w1 == [wt EXCEPT ![watchlist_index(c[1])] = Append(@, i)]
                       IN  [w1 EXCEPT ![watchlist_index(c[2])] = Append(@, i)]

\* counter[v]: number of literal occurrences of variable v (counter[0] = 0)
RECURSIVE occurrences(_, _)
occurrences(c, v) ==
    IF c = <<>> THEN 0
    ELSE (IF Head(c).var = v THEN 1 ELSE 0) + occurrences(Tail(c), v)

RECURSIVE count_var(_, _, _)
count_var(cls, v, i) ==
    IF i = 0 THEN 0 ELSE occurrences(cls[i], v) + count_var(cls, v, i - 1)

counter(cls) == [v \in 0..numVars |-> count_var(cls, v, Len(cls))]

\* compare_desc(a, b) <= 0: a may be placed before b
compare_desc(a, b, cnt) == cnt[b] - cnt[a]

\* get_sorted_indices: qsort_r leaves the order of elements that compare
\* equal unspecified, so every arrangement of 0..numVars that is sorted
\* for compare_desc is a possible result
get_sorted_indices(cnt) ==
    {p \in [1..(numVars + 1) -> 0..numVars] :
        /\ \A v \in 0..numVars : \E k \in 1..(numVars + 1) : p[k] = v
        /\ \A k \in 1..numVars : compare_desc(p[k], p[k + 1], cnt) <= 0}

(* --------------------------- undo stack ------------------------------- *)
(* The solver state the search mutates is passed around as a record        *)
(*   [assignments, satisfied, watch_lists, stack].                         *)

push_assignment(st, v) ==
    [st EXCEPT !.stack = Append(@, [type |-> ASSIGNMENT, var |-> v, index |-> 0])]

push_clause_satisfy(st, i) ==
    [st EXCEPT !.stack = Append(@, [type |-> CLAUSE_SATISFY, var |-> 0, index |-> i])]

\* clause->satisfied = true; push_clause_satisfy(stack, i);
set_satisfied(st, i) ==
    push_clause_satisfy([st EXCEPT !.satisfied[i] = TRUE], i)

\* the sequence without its first occurrence of value (unchanged if absent)
RECURSIVE remove_first(_, _)
remove_first(arr, value) ==
    IF arr = <<>> THEN <<>>
    ELSE IF Head(arr) = value THEN Tail(arr)
         ELSE <<Head(arr)>> \o remove_first(Tail(arr), value)

watchtable_add(st, index, value) ==
    [st EXCEPT !.watch_lists[index] = Append(@, value),
               !.stack = Append(@, [type |-> WATCHLIST_ADD, var |-> value, index |-> index])]

\* a variant that removes the clause from the list without logging it
watchtable_remove_unlogged(st, index, value) ==
    [st EXCEPT !.watch_lists[index] = remove_first(@, value)]

watchtable_remove(st, index, value) ==
    [st EXCEPT !.watch_lists[index] = remove_first(@, value),
               !.stack = Append(@, [type |-> WATCHLIST_REMOVE, var |-> value, index |-> index])]

\* a variant of the loop body without the WATCHLIST_REMOVE case: the entry
\* is popped and the clause is not put back
undo_entry_no_reinsert(st) ==
    LET e    == st.stack[Len(st.stack)]
        rest == SubSeq(st.stack, 1, Len(st.stack) - 1)
    IN  IF e.type = ASSIGNMENT
        THEN [st EXCEPT !.assignments[e.var] = -1, !.stack = rest]
        ELSE IF e.type = WATCHLIST_ADD
        THEN [st EXCEPT !.watch_lists[e.index] = remove_first(@, e.var), !.stack = rest]
        ELSE IF e.type = WATCHLIST_REMOVE
        THEN [st EXCEPT !.stack = rest]
        ELSE [st EXCEPT !.satisfied[e.index] = FALSE, !.stack = rest]

\* a variant that puts a removed clause back at the front of its list
undo_entry_reinsert_front(st) ==
    LET e    == st.stack[Len(st.stack)]
        rest == SubSeq(st.stack, 1, Len(st.stack) - 1)
    IN  IF e.type = ASSIGNMENT
        THEN [st EXCEPT !.assignments[e.var] = -1, !.stack = rest]
        ELSE IF e.type = WATCHLIST_ADD
        THEN [st EXCEPT !.watch_lists[e.index] = remove_first(@, e.var), !.stack = rest]
        ELSE IF e.type = WATCHLIST_REMOVE
        THEN [st EXCEPT !.watch_lists[e.index] = <<e.var>> \o @, !.stack = rest]
        ELSE [st EXCEPT !.satisfied[e.index] = FALSE, !.stack = rest]

\* a variant whose CLAUSE_SATISFY case pops the entry and leaves the flag set
undo_entry_keep_flag(st) ==
    LET e    == st.stack[Len(st.stack)]
        rest == SubSeq(st.stack, 1, Len(st.stack) - 1)
    IN  IF e.type = ASSIGNMENT
        THEN [st EXCEPT !.assignments[e.var] = -1, !.stack = rest]
        ELSE IF e.type = WATCHLIST_ADD
        THEN [st EXCEPT !.watch_lists[e.index] = remove_first(@, e.var), !.stack = rest]
        ELSE IF e.type = WATCHLIST_REMOVE
        THEN [st EXCEPT !.watch_lists[e.index] = Append(@, e.var), !.stack = rest]
        ELSE [st EXCEPT !.stack = rest]

\* one iteration of undo_to_checkpoint's loop: invert and pop the head entry
undo_entry(st) ==
    LET e    == st.stack[Len(st.stack)]
        rest == SubSeq(st.stack, 1, Len(st.stack) - 1)
    IN  IF e.type = ASSIGNMENT
        THEN [st EXCEPT !.assignments[e.var] = -1, !.stack = rest]
        ELSE IF e.type = WATCHLIST_ADD
        THEN [st EXCEPT !.watch_lists[e.index] = remove_first(@, e.var), !.stack = rest]
        ELSE IF e.type = WATCHLIST_REMOVE
        THEN [st EXCEPT !.watch_lists[e.index] = Append(@, e.var), !.stack = rest]
        ELSE [st EXCEPT !.satisfied[e.index] = FALSE, !.stack = rest]

\* the loop of undo_to_checkpoint; s is the state once the head entry is undone
RECURSIVE undo_to_checkpoint(_, _)
undo_to_checkpoint(st, checkpoint) ==
    IF Len(st.stack) = checkpoint THEN st
    ELSE CHOOSE r \in {undo_to_checkpoint(s, checkpoint) : s \in {undo_entry(st)}} : TRUE

(* --------------------------- solver state ----------------------------- *)

\* the mutable solver state as one record, and its installation
Cur ==
    [assignments |-> assignments, satisfied |-> satisfied,
     watch_lists |-> watch_lists, stack |-> undo_stack]

Install(st) ==
    /\ assignments' = st.assignments
    /\ satisfied' = st.satisfied
    /\ watch_lists' = st.watch_lists
    /\ undo_stack' = st.stack

\* what a checkpoint must bring back: assignments, flags and watch lists
Snapshot(st) ==
    [assignments |-> st.assignments, satisfied |-> st.satisfied,
     watch_lists |-> st.watch_lists]

(* ---------------------------- propagator ------------------------------ *)

\* the seeding loop's count for one clause: literal positions whose
\* variable is unassigned
unassigned_positions(clause, a) ==
    {j \in 1..Len(clause) : a[clause[j].var] = -1}

first_unassigned(clause, a) ==
    clause[CHOOSE j \in unassigned_positions(clause, a) :
              \A k \in unassigned_positions(clause, a) : j <= k]

\* the seeding loop over clauses 1..i
RECURSIVE seed_queue(_, _)
seed_queue(st, i) ==
    IF i = 0 THEN <<>>
    ELSE LET q == seed_queue(st, i - 1)
         IN  IF /\ ~st.satisfied[i]
                /\ Cardinality(unassigned_positions(clauses[i], st.assignments)) = 1
             THEN Append(q, first_unassigned(clauses[i], st.assignments))
             ELSE q

\* mark every not yet satisfied clause among the first k of wlist
RECURSIVE satisfy_watching(_, _, _)
satisfy_watching(st, wlist, k) ==
    IF k = 0 THEN st
    ELSE LET s == satisfy_watching(st, wlist, k - 1)
         IN  IF s.satisfied[wlist[k]] THEN s ELSE set_satisfied(s, wlist[k])

\* make lit true, log it, and mark the clauses watching lit
force_literal(st, lit) ==
    LET s1 == push_assignment(
                  [st EXCEPT !.assignments[lit.var] = IF lit.neg THEN 0 ELSE 1],
                  lit.var)
        wl == s1.watch_lists[watchlist_index(lit)]
    IN  satisfy_watching(s1, wl, Len(wl))

\* the other literal watched by clause number ci: the first literal of the
\* clause, other than op, whose watch list holds ci
other_watch(st, ci, op) ==
    LET c    == clauses[ci]
        hits == {j \in 1..Len(c) :
                    /\ c[j] # op
                    /\ ci \in Range(st.watch_lists[watchlist_index(c[j])])}
    IN  IF hits = {} THEN NoLiteral
        ELSE c[CHOOSE j \in hits : \A k \in hits : j <= k]

\* the replacement scan: positions whose literal is neither watched
\* literal and is unassigned or true
replacement_positions(st, ci, op, other) ==
    LET c == clauses[ci]
    IN  {j \in 1..Len(c) :
            /\ watchlist_index(c[j]) # watchlist_index(op)
            /\ c[j] # other
            /\ ~is_false(c[j], st.assignments)}

\* a variant whose no-other-watcher branch puts the negation of the visited
\* literal on the queue, unless the queue holds it already
visit_clause_requeue_negated(st, q, op, i) ==
    LET index == watchlist_index(op)
        ci    == st.watch_lists[index][i]
        c     == clauses[ci]
        other == other_watch(st, ci, op)
        repl  == replacement_positions(st, ci, op, other)
        same  == [st |-> st, queue |-> q, outcome |-> "next"]
    IN  IF st.satisfied[ci] THEN same
        ELSE IF other = NoLiteral
        THEN IF \A x \in 1..Len(c) : is_false(c[x], st.assignments)
             THEN [st |-> st, queue |-> <<>>, outcome |-> "conflict"]
             ELSE [st |-> st,
                   queue |-> IF [var |-> op.var, neg |-> ~op.neg] \in Range(q) THEN q
                             ELSE Append(q, [var |-> op.var, neg |-> ~op.neg]),
                   outcome |-> "next"]
        ELSE IF is_true(other, st.assignments) THEN same
        ELSE IF repl # {}
        THEN LET j == CHOOSE j \in repl : \A k \in repl : j <= k
             IN  [st |-> watchtable_add(watchtable_remove(st, index, ci),
                                        watchlist_index(c[j]), ci),
                  queue |-> q, outcome |-> "next"]
        ELSE IF st.assignments[other.var] = -1
        THEN [st |-> force_literal(st, other), queue |-> Append(q, other),
              outcome |-> "next"]
        ELSE [st |-> st, queue |-> <<>>, outcome |-> "conflict"]

\* the body of the visit loop for position i of the watch list of op.
\* outcome "next": the loop goes on with i + 1; "conflict": return false
visit_clause(st, q, op, i) ==
    LET index == watchlist_index(op)
        ci    == st.watch_lists[index][i]
        c     == clauses[ci]
        other == other_watch(st, ci, op)
        repl  == replacement_positions(st, ci, op, other)
        same  == [st |-> st, queue |-> q, outcome |-> "next"]
    IN  IF st.satisfied[ci] THEN same
        ELSE IF other = NoLiteral
        THEN IF \A x \in 1..Len(c) : is_false(c[x], st.assignments)
             THEN [st |-> st, queue |-> <<>>, outcome |-> "conflict"]
             ELSE [st |-> st, queue |-> Append(q, op), outcome |-> "next"]
        ELSE IF is_true(other, st.assignments) THEN same
        ELSE IF repl # {}
        THEN LET j == CHOOSE j \in repl : \A k \in repl : j <= k
             IN  [st |-> watchtable_add(watchtable_remove(st, index, ci),
                                        watchlist_index(c[j]), ci),
                  queue |-> q, outcome |-> "next"]
        ELSE IF st.assignments[other.var] = -1
        THEN [st |-> force_literal(st, other), queue |-> Append(q, other),
              outcome |-> "next"]
        ELSE [st |-> st, queue |-> <<>>, outcome |-> "conflict"]

(* ------------------------- pure-literal pass -------------------------- *)

\* positive_units / negative_units: unassigned variables seen with the
\* given polarity in a clause whose flag is not set
seen_units(st, negated) ==
    {v \in Vars :
        /\ st.assignments[v] = -1
        /\ \E i \in 1..Len(clauses) :
              /\ ~st.satisfied[i]
              /\ \E j \in 1..Len(clauses[i]) :
                    clauses[i][j].var = v /\ clauses[i][j].neg = negated}

\* a variant of the assignment loop that gives a pure variable the value
\* that makes its occurrences false
RECURSIVE pure_assign_swapped(_, _, _, _)
pure_assign_swapped(st, positive, negative, v) ==
    IF v = 0 THEN st
    ELSE LET s == pure_assign_swapped(st, positive, negative, v - 1)
         IN  IF s.assignments[v] # -1 THEN s
             ELSE IF v \in positive /\ v \notin negative
             THEN push_assignment([s EXCEPT !.assignments[v] = 0], v)
             ELSE IF v \notin positive /\ v \in negative
             THEN push_assignment([s EXCEPT !.assignments[v] = 1], v)
             ELSE s

\* the assignment loop over var = 1..v
RECURSIVE pure_assign(_, _, _, _)
pure_assign(st, positive, negative, v) ==
    IF v = 0 THEN st
    ELSE LET s == pure_assign(st, positive, negative, v - 1)
         IN  IF s.assignments[v] # -1 THEN s
             ELSE IF v \in positive /\ v \notin negative
             THEN push_assignment([s EXCEPT !.assignments[v] = 1], v)
             ELSE IF v \notin positive /\ v \in negative
             THEN push_assignment([s EXCEPT !.assignments[v] = 0], v)
             ELSE s

\* whether the marking loop marks clause i (lit_purity = the pure variables)
pure_marks(st, lit_purity, i) ==
    \E j \in 1..Len(clauses[i]) : clauses[i][j].var \in lit_purity

\* the marking loop over clauses 1..i
RECURSIVE pure_mark(_, _, _)
pure_mark(st, lit_purity, i) ==
    IF i = 0 THEN st
    ELSE LET s == pure_mark(st, lit_purity, i - 1)
         IN  IF pure_marks(s, lit_purity, i) THEN set_satisfied(s, i) ELSE s

pure_literal_elimination(st) ==
    LET positive == seen_units(st, FALSE)
        negative == seen_units(st, TRUE)
        purity   == {v \in Vars : st.assignments[v] = -1
                                  /\ ((v \in positive) # (v \in negative))}
    IN  pure_mark(pure_assign(st, positive, negative, numVars), purity,
                  Len(clauses))

(* ------------------------------ driver -------------------------------- *)

\* a variant of the sweep that goes on past a clause with no flag and no
\* true literal instead of stopping with all_satisfied = false
RECURSIVE sweep_without_break(_, _)
sweep_without_break(st, i) ==
    IF i > Len(clauses) THEN [st |-> st, all_satisfied |-> TRUE]
    ELSE IF st.satisfied[i] THEN sweep_without_break(st, i + 1)
    ELSE IF has_true_literal(clauses[i], st.assignments)
    THEN sweep_without_break(set_satisfied(st, i), i + 1)
    ELSE sweep_without_break(st, i + 1)

\* dpll's satisfaction sweep from clause i on; it stops at the first clause
\* that has no flag and no true literal
RECURSIVE sweep(_, _)
sweep(st, i) ==
    IF i > Len(clauses) THEN [st |-> st, all_satisfied |-> TRUE]
    ELSE IF st.satisfied[i] THEN sweep(st, i + 1)
    ELSE IF has_true_literal(clauses[i], st.assignments)
    THEN sweep(set_satisfied(st, i), i + 1)
    ELSE [st |-> st, all_satisfied |-> FALSE]

\* a variant of the flags-only test that is content with one flagged clause
sweep_flags_any(st) ==
    [st |-> st,
     all_satisfied |-> \E i \in 1..Len(clauses) : st.satisfied[i]]

\* dpll's satisfaction loop without the search for a true literal and the
\* flag setting: all_satisfied is false at the first clause whose flag is not
\* set, and no flag is changed
sweep_flags_only(st) ==
    [st |-> st,
     all_satisfied |-> \A i \in 1..Len(clauses) : st.satisfied[i]]

RECURSIVE pick_from(_, _, _)
pick_from(a, vs, i) ==
    IF i > numVars THEN -1
    ELSE IF vs[i] = 0 THEN -1
    ELSE IF a[vs[i]] = -1 THEN vs[i]
    ELSE pick_from(a, vs, i + 1)

pick_unassigned_variable(a, vs) == pick_from(a, vs, 1)

\* satisfy_clauses_after_assignment over clauses 1..i
RECURSIVE satisfy_clauses(_, _)
satisfy_clauses(st, i) ==
    IF i = 0 THEN st
    ELSE LET s == satisfy_clauses(st, i - 1)
         IN  IF ~s.satisfied[i] /\ has_true_literal(clauses[i], s.assignments)
             THEN set_satisfied(s, i)
             ELSE s

satisfy_clauses_after_assignment(st) == satisfy_clauses(st, Len(clauses))

\* a variant of the decision step that does not mark the clauses the new
\* assignment satisfies
decide_without_marking(st, x, value) ==
    push_assignment([st EXCEPT !.assignments[x] = value], x)

\* a variant of the decision step that assigns the other value
decide_other_value(st, x, value) ==
    satisfy_clauses_after_assignment(
        push_assignment([st EXCEPT !.assignments[x] = 1 - value], x))

\* assignments[x] = value; push_assignment; satisfy_clauses_after_assignment
decide(st, x, value) ==
    satisfy_clauses_after_assignment(
        push_assignment([st EXCEPT !.assignments[x] = value], x))

\* a variant that explores the second polarity whenever the first did not
\* return SAT
second_branch_unless_sat(result1) == result1 # SAT

\* dpll explores the second polarity exactly when the first returned UNSAT
second_branch_needed(result1) == result1 = UNSAT

\* dpll rewinds to its entry checkpoint when the second branch returned UNSAT
rewind_after_second(result2) == result2 = UNSAT

(* ------------------------------ actions ------------------------------- *)

Top == frames[Len(frames)]

Pop(fs) == SubSeq(fs, 1, Len(fs) - 1)

negate(lit) == [var |-> lit.var, neg |-> ~lit.neg]

\* a variant whose last branch prints the UNSAT line
result_line_two_way(r) ==
    IF r = SAT THEN "Result: SAT" ELSE "Result: UNSAT"

result_line(r) ==
    IF r = SAT THEN "Result: SAT"
    ELSE IF r = UNSAT THEN "Result: UNSAT"
    ELSE "Result: TIMEOUT"

\* literal lit is true under the (possibly partial) assignment vector a
LitTrue(lit, a) == IF lit.neg THEN a[lit.var] = 0 ELSE a[lit.var] = 1

\* every clause of cls has a literal true under a
Models(a, cls) ==
    \A i \in 1..Len(cls) : \E j \in 1..Len(cls[i]) : LitTrue(cls[i][j], a)

\* some total assignment of the variables 1..n makes every clause of cls true
Satisfiable(cls, n) == \E a \in [1..n -> {0, 1}] : Models(a, cls)

\* the state main starts in, given what the command line names
Start(f) ==
    /\ pc = "main"
    /\ file = f
    /\ out = <<>>
    /\ exit_code = -1
    /\ numVars = 0
    /\ parsed = <<>>
    /\ clauses = <<>>
    /\ satisfied = <<>>
    /\ watch_lists = <<>>
    /\ var_sort = <<>>
    /\ assignments = <<>>
    /\ undo_stack = <<>>
    /\ frames = <<>>
    /\ queue = <<>>
    /\ oplit = NoLiteral
    /\ pos = 0
    /\ result = "none"
    /\ prev = [result |-> "none", assignments |-> <<>>]

\* every file of at most MaxVars variables within the literal bounds
InitEnumerated ==
    \E n \in 1..MaxVars : \E sizes \in FormulaProfiles :
        \E flat \in [1..SumSizes(sizes, Len(sizes)) -> [var : 1..n, neg : BOOLEAN]] :
            /\ argc = 2
            /\ openable = TRUE
            /\ Start([numVars |-> n, clauses |-> Split(flat, sizes)])

\* the files among them that hold an unsatisfiable formula.  A file with an
\* empty clause next to other clauses is left out: remove_supersets reduces
\* it to the single empty clause, which the one-clause file covers
InitRefutable ==
    \E n \in 1..MaxVars : \E sizes \in FormulaProfiles :
        \E flat \in [1..SumSizes(sizes, Len(sizes)) -> [var : 1..n, neg : BOOLEAN]] :
            /\ ~Satisfiable(Split(flat, sizes), n)
            /\ (\A i \in 1..Len(sizes) : sizes[i] > 0) \/ Len(sizes) = 1
            /\ argc = 2
            /\ openable = TRUE
            /\ Start([numVars |-> n, clauses |-> Split(flat, sizes)])

\* every file of at most MaxPoolClauses clause lines taken from ClausePool
InitPool ==
    \E m \in 0..MaxPoolClauses : \E lines \in [1..m -> 1..Len(ClausePool)] :
        /\ argc = 2
        /\ openable = TRUE
        /\ Start([numVars |-> PoolVars,
                  clauses |-> [i \in 1..m |-> parse_clause(ClausePool[lines[i]])]])

\* a wrong argument count, or a file that cannot be opened
InitNoFile ==
    /\ \/ argc \in {1, 3} /\ openable \in BOOLEAN
       \/ argc = 2 /\ openable = FALSE
    /\ Start(NoFile)

\* the files of SampleFiles
InitSamples ==
    \E k \in 1..Len(SampleFiles) :
        /\ argc = 2
        /\ openable = TRUE
        /\ Start([numVars |-> SampleFiles[k].numVars,
                  clauses |-> [i \in 1..Len(SampleFiles[k].lines) |->
                                  parse_clause(SampleFiles[k].lines[i])]])

Init == InitEnumerated \/ InitPool \/ InitNoFile \/ InitSamples

\* main: argc != 2
Usage ==
    /\ pc = "main"
    /\ argc # 2
    /\ out' = Append(out, "Usage")
    /\ exit_code' = 1
    /\ pc' = "exit"
    /\ UNCHANGED <<argc, openable, file, prev, formula_vars, search_vars, frames, prop_vars, result>>

\* main: parse_formula returned NULL
ParseFailed ==
    /\ pc = "main"
    /\ argc = 2
    /\ ~openable
    /\ out' = out \o <<"Filename provided", "File failed to parse!">>
    /\ exit_code' = 1
    /\ pc' = "exit"
    /\ UNCHANGED <<argc, openable, file, prev, formula_vars, search_vars, frames, prop_vars, result>>

\* main: parse_formula read a formula
Parse ==
    /\ pc = "main"
    /\ argc = 2
    /\ openable
    /\ numVars' = file.numVars
    /\ parsed' = file.clauses
    /\ clauses' = file.clauses
    /\ satisfied' = [i \in 1..Len(file.clauses) |-> FALSE]
    /\ out' = out \o <<"Filename provided", "Vars Clauses">>
    /\ pc' = "remove_supersets"
    /\ UNCHANGED <<argc, openable, file, prev, exit_code, var_sort, watch_lists,
                   assignments, undo_stack, frames, prop_vars, result>>

\* main: remove_supersets(formula)
RemoveSupersets ==
    /\ pc = "remove_supersets"
    /\ clauses' = remove_supersets(clauses)
    /\ satisfied' = [i \in 1..Len(clauses') |-> FALSE]
    /\ pc' = "watch_table"
    /\ UNCHANGED <<io_vars, numVars, parsed, var_sort, watch_lists, assignments, undo_stack,
                   frames, prop_vars, result>>

\* main: the watch table is populated
InitWatchTable ==
    /\ pc = "watch_table"
    /\ watch_lists' = init_watch_table(clauses, Len(clauses))
    /\ pc' = "sort"
    /\ UNCHANGED <<io_vars, formula_vars, satisfied, assignments, undo_stack,
                   frames, prop_vars, result>>

\* main: var_sort, the assignment vector and the undo stack are set up and
\* dpll is called at depth 0
SortVariables ==
    /\ pc = "sort"
    /\ var_sort' \in get_sorted_indices(counter(clauses))
    /\ assignments' = [v \in Vars |-> -1]
    /\ undo_stack' = <<>>
    /\ pc' = "dpll"
    /\ UNCHANGED <<io_vars, numVars, parsed, clauses, satisfied, watch_lists, frames,
                   prop_vars, result>>

\* dpll: timeout_exceeded() is true
DpllTimeout ==
    /\ pc = "dpll"
    /\ result' = TIMEOUT
    /\ pc' = "return"
    /\ UNCHANGED <<io_vars, formula_vars, search_vars, frames, prop_vars>>

\* dpll: no timeout; the entry checkpoint is taken.  saved and saved2 record
\* the state at the two checkpoints (they are not program state)
DpllEnter ==
    /\ pc = "dpll"
    /\ frames' = Append(frames,
                        [checkpoint |-> Len(undo_stack), checkpoint2 |-> 0,
                         x |-> 0, branch |-> 0,
                         saved |-> Snapshot(Cur), saved2 |-> Snapshot(Cur)])
    /\ pc' = "propagate"
    /\ UNCHANGED <<io_vars, formula_vars, search_vars, prop_vars, result>>

\* unit_propagate_2watchlit: the seeding loop
Seed ==
    /\ pc = "propagate"
    /\ queue' = seed_queue(Cur, Len(clauses))
    /\ pc' = "queue"
    /\ UNCHANGED <<io_vars, formula_vars, search_vars, frames, oplit, pos, result>>

\* unit_propagate_2watchlit: pop the next literal and force it if unassigned
Dequeue ==
    /\ pc = "queue"
    /\ queue # <<>>
    /\ LET lit == Head(queue)
       IN  /\ Install(IF assignments[lit.var] = -1 THEN force_literal(Cur, lit)
                      ELSE Cur)
           /\ oplit' = negate(lit)
    /\ queue' = Tail(queue)
    /\ pos' = 1
    /\ pc' = "visit"
    /\ UNCHANGED <<io_vars, formula_vars, frames, result>>

\* unit_propagate_2watchlit: one iteration of the loop over the clauses
\* watching the opposite literal
VisitClause ==
    /\ pc = "visit"
    /\ pos <= Len(watch_lists[watchlist_index(oplit)])
    /\ LET r == visit_clause(Cur, queue, oplit, pos)
       IN  /\ Install(r.st)
           /\ queue' = r.queue
           /\ pc' = IF r.outcome = "conflict" THEN "conflict" ELSE "visit"
    /\ pos' = pos + 1
    /\ UNCHANGED <<io_vars, formula_vars, frames, oplit, result>>

\* unit_propagate_2watchlit: the visit loop is over
VisitDone ==
    /\ pc = "visit"
    /\ pos > Len(watch_lists[watchlist_index(oplit)])
    /\ pc' = "queue"
    /\ UNCHANGED <<io_vars, formula_vars, search_vars, frames, prop_vars, result>>

\* unit_propagate_2watchlit returns true
PropagateOk ==
    /\ pc = "queue"
    /\ queue = <<>>
    /\ pc' = "pure"
    /\ UNCHANGED <<io_vars, formula_vars, search_vars, frames, prop_vars, result>>

\* dpll: the propagator returned false; rewind and return UNSAT
PropagateConflict ==
    /\ pc = "conflict"
    /\ Install(undo_to_checkpoint(Cur, Top.checkpoint))
    /\ result' = UNSAT
    /\ frames' = Pop(frames)
    /\ pc' = "return"
    /\ UNCHANGED <<io_vars, formula_vars, prop_vars>>

\* dpll: pure_literal_elimination (it always returns true)
PureLiteral ==
    /\ pc = "pure"
    /\ Install(pure_literal_elimination(Cur))
    /\ pc' = "sweep"
    /\ UNCHANGED <<io_vars, formula_vars, frames, prop_vars, result>>

\* dpll: the sweep finds every clause satisfied
SweepSat ==
    /\ pc = "sweep"
    /\ sweep(Cur, 1).all_satisfied
    /\ Install(sweep(Cur, 1).st)
    /\ result' = SAT
    /\ frames' = Pop(frames)
    /\ pc' = "return"
    /\ UNCHANGED <<io_vars, formula_vars, prop_vars>>

\* dpll: the sweep stops at a clause with no flag and no true literal
SweepOpen ==
    /\ pc = "sweep"
    /\ ~sweep(Cur, 1).all_satisfied
    /\ Install(sweep(Cur, 1).st)
    /\ pc' = "pick"
    /\ UNCHANGED <<io_vars, formula_vars, frames, prop_vars, result>>

\* dpll: pick_unassigned_variable returned -1
PickNone ==
    /\ pc = "pick"
    /\ pick_unassigned_variable(assignments, var_sort) = -1
    /\ result' = UNSAT
    /\ frames' = Pop(frames)
    /\ pc' = "return"
    /\ UNCHANGED <<io_vars, formula_vars, search_vars, prop_vars>>

\* dpll: checkpoint2, x = 0, and the first recursive call
Decide ==
    /\ pc = "pick"
    /\ LET x == pick_unassigned_variable(assignments, var_sort)
       IN  /\ x # -1
           /\ frames' = [frames EXCEPT ![Len(frames)] =
                            [@ EXCEPT !.checkpoint2 = Len(undo_stack), !.x = x,
                                      !.branch = 1, !.saved2 = Snapshot(Cur)]]
           /\ Install(decide(Cur, x, 0))
    /\ pc' = "dpll"
    /\ UNCHANGED <<io_vars, formula_vars, prop_vars, result>>

\* dpll: result1 == UNSAT: rewind to checkpoint2
FirstUnsat ==
    /\ pc = "return"
    /\ frames # <<>>
    /\ Top.branch = 1
    /\ second_branch_needed(result)
    /\ Install(undo_to_checkpoint(Cur, Top.checkpoint2))
    /\ pc' = "second"
    /\ UNCHANGED <<io_vars, formula_vars, frames, prop_vars, result>>

\* dpll: x = 1 and the second recursive call
SecondBranch ==
    /\ pc = "second"
    /\ Install(decide(Cur, Top.x, 1))
    /\ frames' = [frames EXCEPT ![Len(frames)] = [@ EXCEPT !.branch = 2]]
    /\ pc' = "dpll"
    /\ UNCHANGED <<io_vars, formula_vars, prop_vars, result>>

\* dpll: result1 is SAT or TIMEOUT: return it
FirstReturns ==
    /\ pc = "return"
    /\ frames # <<>>
    /\ Top.branch = 1
    /\ ~second_branch_needed(result)
    /\ frames' = Pop(frames)
    /\ UNCHANGED <<pc, io_vars, formula_vars, search_vars, prop_vars, result>>

\* dpll: result2 == UNSAT: rewind to the entry checkpoint and return UNSAT
SecondUnsat ==
    /\ pc = "return"
    /\ frames # <<>>
    /\ Top.branch = 2
    /\ rewind_after_second(result)
    /\ Install(undo_to_checkpoint(Cur, Top.checkpoint))
    /\ frames' = Pop(frames)
    /\ UNCHANGED <<pc, io_vars, formula_vars, prop_vars, result>>

\* dpll: result2 is SAT or TIMEOUT: return it
SecondReturns ==
    /\ pc = "return"
    /\ frames # <<>>
    /\ Top.branch = 2
    /\ ~rewind_after_second(result)
    /\ frames' = Pop(frames)
    /\ UNCHANGED <<pc, io_vars, formula_vars, search_vars, prop_vars, result>>

\* main: the verdict line, the CPU-time line, return 0
MainResult ==
    /\ pc = "return"
    /\ frames = <<>>
    /\ out' = out \o <<result_line(result), "CPU time used">>
    /\ exit_code' = 0
    /\ pc' = "exit"
    /\ UNCHANGED <<argc, openable, file, prev, formula_vars, search_vars, frames, prop_vars, result>>

Next ==
    \/ Usage
    \/ ParseFailed
    \/ Parse
    \/ RemoveSupersets
    \/ InitWatchTable
    \/ SortVariables
    \/ DpllTimeout
    \/ DpllEnter
    \/ Seed
    \/ Dequeue
    \/ VisitClause
    \/ VisitDone
    \/ PropagateOk
    \/ PropagateConflict
    \/ PureLiteral
    \/ SweepSat
    \/ SweepOpen
    \/ PickNone
    \/ Decide
    \/ FirstUnsat
    \/ SecondBranch
    \/ FirstReturns
    \/ SecondUnsat
    \/ SecondReturns
    \/ MainResult

Spec == Init /\ [][Next]_vars

\* the program is run once more on the same file; prev keeps the verdict and
\* the assignment vector the first run ended with
Rerun ==
    /\ pc = "exit"
    /\ exit_code = 0
    /\ prev.result = "none"
    /\ prev' = [result |-> result, assignments |-> assignments]
    /\ pc' = "main"
    /\ out' = <<>>
    /\ exit_code' = -1
    /\ numVars' = 0
    /\ parsed' = <<>>
    /\ clauses' = <<>>
    /\ satisfied' = <<>>
    /\ watch_lists' = <<>>
    /\ var_sort' = <<>>
    /\ assignments' = <<>>
    /\ undo_stack' = <<>>
    /\ result' = "none"
    /\ UNCHANGED <<argc, openable, file, frames, prop_vars>>

\* two runs of the program on one file taken from ClausePool
SpecRerun == (InitPool \/ InitNoFile) /\ [][Next \/ Rerun]_vars

\* The program is sequential and runs until main returns: a step that can be
\* taken is eventually taken.
FairSpec ==
    /\ InitRefutable \/ InitPool \/ InitNoFile
    /\ [][Next]_vars
    /\ WF_vars(Next)

\* dpll is called once more on the same formula with the same var_sort, from
\* the state main first called it in; prev keeps the first call's verdict
SearchAgain ==
    /\ pc = "exit"
    /\ exit_code = 0
    /\ prev.result = "none"
    /\ prev' = [result |-> result, assignments |-> assignments]
    /\ satisfied' = [i \in 1..Len(clauses) |-> FALSE]
    /\ watch_lists' = init_watch_table(clauses, Len(clauses))
    /\ assignments' = [v \in Vars |-> -1]
    /\ undo_stack' = <<>>
    /\ result' = "none"
    /\ out' = <<>>
    /\ exit_code' = -1
    /\ pc' = "dpll"
    /\ UNCHANGED <<argc, openable, file, formula_vars, frames, prop_vars>>

\* the first call sweeps as the code does
FirstSweepSat == prev.result = "none" /\ SweepSat

FirstSweepOpen == prev.result = "none" /\ SweepOpen

\* the second call relies on the flags alone: every clause is flagged
FlagsOnlySat ==
    /\ prev.result # "none"
    /\ pc = "sweep"
    /\ sweep_flags_only(Cur).all_satisfied
    /\ result' = SAT
    /\ frames' = Pop(frames)
    /\ pc' = "return"
    /\ UNCHANGED <<io_vars, formula_vars, search_vars, prop_vars>>

\* the second call relies on the flags alone: some clause is not flagged
FlagsOnlyOpen ==
    /\ prev.result # "none"
    /\ pc = "sweep"
    /\ ~sweep_flags_only(Cur).all_satisfied
    /\ pc' = "pick"
    /\ UNCHANGED <<io_vars, formula_vars, search_vars, frames, prop_vars, result>>

NextTwoSweeps ==
    \/ Usage
    \/ ParseFailed
    \/ Parse
    \/ RemoveSupersets
    \/ InitWatchTable
    \/ SortVariables
    \/ DpllTimeout
    \/ DpllEnter
    \/ Seed
    \/ Dequeue
    \/ VisitClause
    \/ VisitDone
    \/ PropagateOk
    \/ PropagateConflict
    \/ PureLiteral
    \/ FirstSweepSat
    \/ FirstSweepOpen
    \/ FlagsOnlySat
    \/ FlagsOnlyOpen
    \/ PickNone
    \/ Decide
    \/ FirstUnsat
    \/ SecondBranch
    \/ FirstReturns
    \/ SecondUnsat
    \/ SecondReturns
    \/ MainResult
    \/ SearchAgain

\* dpll as it is, and then dpll without the sweep's flag setting, on one file
\* taken from ClausePool or SampleFiles
SpecTwoSweeps == (InitPool \/ InitSamples \/ InitNoFile) /\ [][NextTwoSweeps]_vars

(* ------------------- vocabulary of the properties --------------------- *)

\* the top-level dpll call has returned to main
TopReturned == pc = "return" /\ frames = <<>>

\* the number of occurrences of x in the sequence s
Count(s, x) == Cardinality({k \in 1..Len(s) : s[k] = x})

\* the sequences s and t hold the same elements with the same multiplicities
SameMultiset(s, t) ==
    /\ Len(s) = Len(t)
    /\ \A x \in Range(s) \cup Range(t) : Count(s, x) = Count(t, x)

\* the sequence s without the occurrences of x
Without(s, x) == SelectSeq(s, LAMBDA y : y # x)

\* the watch table main built before the search started
InitialWatchLists == init_watch_table(clauses, Len(clauses))

\* the top-level dpll call has returned UNSAT after rewinding the whole trail
RewoundToStart == TopReturned /\ result = UNSAT /\ undo_stack = <<>>

\* the solver state after the step
CurNext ==
    [assignments |-> assignments', satisfied |-> satisfied',
     watch_lists |-> watch_lists', stack |-> undo_stack']

\* the step is an iteration of the visit loop that moved a watcher: it
\* logged a WATCHLIST_REMOVE and then a WATCHLIST_ADD entry
Relocates ==
    /\ pc = "visit"
    /\ Len(undo_stack') = Len(undo_stack) + 2
    /\ undo_stack'[Len(undo_stack')].type = WATCHLIST_ADD
    /\ undo_stack'[Len(undo_stack') - 1].type = WATCHLIST_REMOVE

\* snapshot s has the assignments, the flags and, as multisets, the watch
\* lists of snapshot t
SameUpToOrder(s, t) ==
    /\ s.assignments = t.assignments
    /\ s.satisfied = t.satisfied
    /\ \A w \in DOMAIN t.watch_lists :
          SameMultiset(s.watch_lists[w], t.watch_lists[w])

VerdictLines == {"Result: SAT", "Result: UNSAT", "Result: TIMEOUT"}

(* ---------------------------- properties ------------------------------ *)

\* C1 (soundness): whenever the top-level dpll call has returned SAT, the
\* assignment vector makes a literal true in every clause of the formula as
\* parsed, before remove_supersets dropped any clause.
C1_Soundness == (TopReturned /\ result = SAT) => Models(assignments, parsed)

\* a SAT verdict reached through a decision, on a formula that lost a clause
\* to remove_supersets
C1_Witness ==
    /\ TopReturned
    /\ result = SAT
    /\ Len(clauses) < Len(parsed)
    /\ \E k \in 1..Len(undo_stack) : undo_stack[k].type = ASSIGNMENT

\* C2 (refutational completeness): from the moment an unsatisfiable formula
\* has been parsed the run reaches main's return with the verdict UNSAT, or
\* TIMEOUT when timeout_exceeded fired; it never ends with SAT and never
\* fails to return.
C2_RefutationComplete ==
    [](  (pc = "remove_supersets" /\ ~Satisfiable(parsed, numVars))
      => <>(pc = "exit" /\ result \in {UNSAT, TIMEOUT}))

\* an unsatisfiable formula refuted only after both branches of a decision
C2_Witness ==
    /\ pc = "exit"
    /\ result = UNSAT
    /\ ~Satisfiable(parsed, numVars)
    /\ \A i \in 1..Len(parsed) : Len(parsed[i]) >= 2

C4_WatchedInvariant ==
    pc = "pure" =>
        \A i \in 1..Len(clauses) :
            ~satisfied[i] =>
                LET c     == clauses[i]
                    where == {w \in DOMAIN watch_lists : Count(watch_lists[w], i) > 0}
                IN  IF Len(c) >= 2
                    THEN /\ Cardinality(where) = 2
                         /\ \A w \in where :
                               /\ Count(watch_lists[w], i) = 1
                               /\ \E j \in 1..Len(c) : watchlist_index(c[j]) = w
                    ELSE IF Len(c) = 1
                    THEN /\ where = {watchlist_index(c[1])}
                         /\ Count(watch_lists[watchlist_index(c[1])], i) = 1
                    ELSE TRUE

\* C5 (subsumption preserves satisfiability): right after remove_supersets
\* the formula left is satisfiable exactly when the parsed formula is.
C5_Equisatisfiable ==
    pc = "watch_table" =>
        (Satisfiable(clauses, numVars) <=> Satisfiable(parsed, numVars))

\* an unsatisfiable input with two identical clauses, one of which was removed
C5_Witness ==
    /\ pc = "watch_table"
    /\ Len(clauses) < Len(parsed)
    /\ \E i, j \in 1..Len(parsed) : i # j /\ parsed[i] = parsed[j]
    /\ ~Satisfiable(parsed, numVars)

\* C6 (TIMEOUT propagation): once a dpll call has returned TIMEOUT, every
\* enclosing frame returns TIMEOUT in turn: no step changes the assignments,
\* flags, watch lists or trail (no decision, no second branch, no rewind),
\* each step hands the verdict to the next frame out, and main prints the
\* TIMEOUT verdict.
C6_TimeoutPropagates ==
    [][result = TIMEOUT =>
          /\ result' = TIMEOUT
          /\ UNCHANGED search_vars
          /\ frames # <<>> => (frames' = Pop(frames) /\ pc' = "return")
          /\ (frames = <<>> /\ pc = "return") =>
                (pc' = "exit" /\ out'[Len(out')-1] = "Result: TIMEOUT")]_vars

\* a TIMEOUT raised below at least one decision has reached main
C6_Witness ==
    /\ pc = "exit"
    /\ result = TIMEOUT
    /\ \E k \in 1..Len(undo_stack) : undo_stack[k].type = ASSIGNMENT

\* C7 (determinism): two runs on one file that end without TIMEOUT return
\* the same verdict and, on SAT, the same assignment vector, whatever order
\* the sort gave to variables with equal occurrence counts.
C7_Determinism ==
    (TopReturned /\ prev.result \in {SAT, UNSAT} /\ result \in {SAT, UNSAT}) =>
        /\ result = prev.result
        /\ result = SAT => assignments = prev.assignments

\* C8 (CLI outcome): a run with one argument naming an openable file prints
\* exactly one verdict line, the one of dpll's verdict, after the
\* Vars/Clauses line and before the CPU-time line, and exits with code 0,
\* also on TIMEOUT; any other run exits with code 1 and prints no verdict.
C8_CliOutcome ==
    pc = "exit" =>
        IF argc = 2 /\ openable
        THEN /\ exit_code = 0
             /\ \E k \in 2..(Len(out) - 1) :
                   /\ out[k - 1] = "Vars Clauses"
                   /\ out[k] \in VerdictLines
                   /\ out[k + 1] = "CPU time used"
                   /\ result = SAT <=> out[k] = "Result: SAT"
                   /\ result = UNSAT <=> out[k] = "Result: UNSAT"
                   /\ result = TIMEOUT <=> out[k] = "Result: TIMEOUT"
                   /\ \A m \in 1..Len(out) : out[m] \in VerdictLines => m = k
        ELSE /\ exit_code = 1
             /\ \A m \in 1..Len(out) : out[m] \notin VerdictLines

\* a run that ended with the TIMEOUT verdict and exit code 0
C8_Witness == pc = "exit" /\ exit_code = 0 /\ result = TIMEOUT /\ Len(out) = 4

\* C9 (rewind is an exact inverse for every checkpoint): a rewind to a
\* frame's entry checkpoint (after a propagation conflict or after both
\* branches failed) or to its checkpoint2 (after the first branch failed)
\* leaves every assignment, every satisfied flag and every watcher list's
\* multiset of clause indices as they were when the checkpoint was taken.
C9_RewindExact ==
    [][/\ (pc = "conflict" \/ (pc = "return" /\ pc' = "return" /\ frames # <<>>
                                 /\ Top.branch = 2 /\ result = UNSAT))
            => SameUpToOrder(Snapshot(CurNext), Top.saved)
       /\ (pc = "return" /\ pc' = "second")
            => SameUpToOrder(Snapshot(CurNext), Top.saved2)]_vars

VisitStep == pc = "visit" /\ pos' = pos + 1

\* C11 (complete watcher visit): in the visit pass for a literal just made
\* true, no clause of the watch list of the opposite literal is passed over
\* by the loop without having been examined while its flag is not set: after
\* each iteration, every clause that now lies before the loop index either
\* lay at or before the index that was examined, or is flagged satisfied.
\* This is to hold also when the iteration relocated a watcher out of the
\* list.
C11_CompleteVisit ==
    [][VisitStep =>
          LET before == watch_lists[watchlist_index(oplit)]
              after  == watch_lists'[watchlist_index(oplit)]
          IN  \A k \in 1..Len(after) :
                 k < pos' =>
                    \/ satisfied'[after[k]]
                    \/ \E m \in 1..pos : before[m] = after[k]]_vars

\* clause i is not flagged and every one of its literals is assigned false
falsified(i) ==
    /\ ~satisfied[i]
    /\ clauses[i] # <<>>
    /\ \A j \in 1..Len(clauses[i]) : is_false(clauses[i][j], assignments)

\* C12 (early UNSAT on a falsified clause): when the propagator and the
\* pure-literal pass have succeeded and some unsatisfied clause has every
\* literal assigned false, dpll returns UNSAT from the sweep: it does not go
\* on to pick_unassigned_variable and it makes no decision.
C12_EarlyUnsat ==
    [][/\ (pc = "sweep" /\ \E i \in 1..Len(clauses) : falsified(i))
            => (pc' = "return" /\ result' = UNSAT)
       /\ (pc = "pick" /\ \E i \in 1..Len(clauses) : falsified(i))
            => pc' # "dpll"]_vars

\* the search is under way or over: main has built the watch table, the
\* order and the assignment vector
SearchPcs ==
    {"dpll", "propagate", "queue", "visit", "conflict", "pure", "sweep",
     "pick", "second", "return"}

\* the trail holds an entry of the given type for variable v / clause i
OnTrail(type, v, i) ==
    \E k \in 1..Len(undo_stack) :
        /\ undo_stack[k].type = type
        /\ undo_stack[k].var = v
        /\ undo_stack[k].index = i

\* the initial watch table modified by the first k entries of the trail, in
\* the order they were pushed
RECURSIVE ReplayWatch(_)
ReplayWatch(k) ==
    IF k = 0 THEN InitialWatchLists
    ELSE LET e == undo_stack[k]
             w == ReplayWatch(k - 1)
         IN  IF e.type = WATCHLIST_ADD
             THEN [w EXCEPT ![e.index] = Append(@, e.var)]
             ELSE IF e.type = WATCHLIST_REMOVE
             THEN [w EXCEPT ![e.index] = remove_first(@, e.var)]
             ELSE w

\* the number of trail entries of the given type for list w and clause c
TrailCount(type, w, c) ==
    Cardinality({k \in 1..Len(undo_stack) :
                    /\ undo_stack[k].type = type
                    /\ undo_stack[k].var = c
                    /\ undo_stack[k].index = w})

\* variables and flags against the trail
TrailCoversAssignmentsAndFlags ==
    /\ \A v \in Vars : assignments[v] # -1 <=> OnTrail(ASSIGNMENT, v, 0)
    /\ \A i \in 1..Len(clauses) : satisfied[i] => OnTrail(CLAUSE_SATISFY, 0, i)

\* a step of the search that does not rewind pushes an entry for everything
\* it changes
StepIsLogged ==
    (/\ pc \in SearchPcs
     /\ Len(undo_stack') >= Len(undo_stack)
     /\ SubSeq(undo_stack', 1, Len(undo_stack)) = undo_stack)
    => LET new == (Len(undo_stack) + 1)..Len(undo_stack')
       IN  /\ \A v \in Vars :
                 assignments'[v] # assignments[v] =>
                    \E k \in new : /\ undo_stack'[k].type = ASSIGNMENT
                                   /\ undo_stack'[k].var = v
           /\ \A i \in 1..Len(clauses) :
                 satisfied'[i] # satisfied[i] =>
                    \E k \in new : /\ undo_stack'[k].type = CLAUSE_SATISFY
                                   /\ undo_stack'[k].index = i
           /\ \A w \in DOMAIN watch_lists :
                 watch_lists'[w] # watch_lists[w] =>
                    \E k \in new :
                       /\ undo_stack'[k].type \in {WATCHLIST_ADD, WATCHLIST_REMOVE}
                       /\ undo_stack'[k].index = w

OpenUnit(i) ==
    /\ ~satisfied[i]
    /\ \A j \in 1..Len(clauses[i]) : ~LitTrue(clauses[i][j], assignments)
    /\ Cardinality({j \in 1..Len(clauses[i]) :
                       assignments[clauses[i][j].var] = -1}) = 1

\* the unassigned literal of each such clause, in clause order
OpenUnitLiterals ==
    LET units == SelectSeq([i \in 1..Len(clauses) |-> i], LAMBDA i : OpenUnit(i))
    IN  [k \in 1..Len(units) |->
            LET c == clauses[units[k]]
            IN  c[CHOOSE j \in 1..Len(c) : assignments[c[j].var] = -1]]

\* C14 (seeding covers exactly the unit clauses): when
\* unit_propagate_2watchlit starts, the queue it seeds holds exactly, for
\* each unflagged clause with exactly one unassigned literal and no true
\* literal, that literal; in particular nothing is seeded from a clause that
\* has a true literal.
C14_SeedsExactlyUnits ==
    [][pc = "propagate" => queue' = OpenUnitLiterals]_vars

\* in a nested dpll call the propagator has seeded its queue, and a clause
\* with one unassigned literal is left out because it has a true literal
C14_Witness ==
    /\ pc = "queue"
    /\ Len(frames) >= 2
    /\ queue # <<>>
    /\ queue = OpenUnitLiterals
    /\ \E i \in 1..Len(clauses) :
          /\ \E j \in 1..Len(clauses[i]) : LitTrue(clauses[i][j], assignments)
          /\ Cardinality({j \in 1..Len(clauses[i]) :
                             assignments[clauses[i][j].var] = -1}) = 1

\* both calls of dpll have returned a verdict other than TIMEOUT
BothDecided ==
    /\ TopReturned
    /\ prev.result \in {SAT, UNSAT}
    /\ result \in {SAT, UNSAT}

\* C15 (the sweep is redundant for the verdict, as stated): dpll with the
\* sweep's flag setting and dpll without it return the same verdict on every
\* formula.
C15_SweepRedundant == BothDecided => result = prev.result

\* C15 (amended): the two verdicts are equal, or dpll with the sweep returns
\* SAT and dpll without it returns UNSAT; dpll without the sweep never
\* returns SAT where dpll with it returns UNSAT.
C15_SweepOnlyAddsSat ==
    BothDecided => (result = prev.result \/ (prev.result = SAT /\ result = UNSAT))

\* dpll with the sweep returned SAT and dpll without it returned UNSAT
C15_Witness == BothDecided /\ prev.result = SAT /\ result = UNSAT

\* variable v occurs with the given polarity in a clause whose flag is not set
OccursLive(v, negated) ==
    \E i \in 1..Len(clauses) :
        /\ ~satisfied[i]
        /\ \E j \in 1..Len(clauses[i]) :
              clauses[i][j] = [var |-> v, neg |-> negated]

\* C16 (the pure-literal pass never causes a conflict): a call of
\* pure_literal_elimination returns ok (dpll goes on to its sweep); every
\* unassigned variable that occurs with exactly one polarity among the
\* unflagged clauses gets the value that makes its occurrences true; and no
\* assignment the pass makes falsifies a literal of a clause that was
\* unflagged, or had no true literal, when the pass started.
C16_PureNoConflict ==
    [][pc = "pure" =>
          /\ pc' = "sweep"
          /\ \A v \in Vars :
                assignments[v] = -1 =>
                   /\ (OccursLive(v, FALSE) /\ ~OccursLive(v, TRUE))
                         => assignments'[v] = 1
                   /\ (OccursLive(v, TRUE) /\ ~OccursLive(v, FALSE))
                         => assignments'[v] = 0
          /\ \A i \in 1..Len(clauses) :
                (~satisfied[i] \/ ~has_true_literal(clauses[i], assignments)) =>
                   \A j \in 1..Len(clauses[i]) :
                      is_false(clauses[i][j], assignments')
                         => is_false(clauses[i][j], assignments)]_vars

\* the pure-literal pass has just assigned two variables, one to each value
C16_Witness ==
    /\ pc = "sweep"
    /\ \E k \in (Top.checkpoint + 1)..(Len(undo_stack) - 1) :
          /\ undo_stack[k].type = ASSIGNMENT
          /\ undo_stack[k + 1].type = ASSIGNMENT
          /\ assignments[undo_stack[k].var] # assignments[undo_stack[k + 1].var]

\* v is unassigned and occurs with exactly one polarity among the unflagged
\* clauses
PureNow(v) ==
    /\ assignments[v] = -1
    /\ OccursLive(v, FALSE) # OccursLive(v, TRUE)

\* clause i is unflagged and contains a pure variable
LiveWithPure(i) ==
    /\ ~satisfied[i]
    /\ \E j \in 1..Len(clauses[i]) : PureNow(clauses[i][j].var)

\* C17 (the pure-literal pass marks only live clauses): a call of
\* pure_literal_elimination sets the satisfied flag and pushes a
\* CLAUSE_SATISFY entry only for clauses that were unflagged when the pass
\* started and contain a pure variable; a clause that was already flagged
\* gets no new trail entry.
C17_PureMarksLive ==
    [][pc = "pure" =>
          /\ \A i \in 1..Len(clauses) :
                (satisfied'[i] /\ ~satisfied[i]) => LiveWithPure(i)
          /\ \A k \in (Len(undo_stack) + 1)..Len(undo_stack') :
                undo_stack'[k].type = CLAUSE_SATISFY
                   => LiveWithPure(undo_stack'[k].index)]_vars

\* the entry the step pushes first
FirstPushed == undo_stack'[Len(undo_stack) + 1]

\* C18 (fixed polarity order): a decision on a variable first assigns it 0,
\* at the checkpoint taken just before; value 1 is assigned only to the
\* variable of that decision, only when the subtree explored with value 0 has
\* returned UNSAT and the trail has been rewound to that checkpoint; after a
\* subtree returns SAT or TIMEOUT no assignment is made any more.
C18_PolarityOrder ==
    [][/\ (pc = "pick" /\ pc' = "dpll") =>
             /\ FirstPushed.type = ASSIGNMENT
             /\ assignments[FirstPushed.var] = -1
             /\ assignments'[FirstPushed.var] = 0
             /\ frames'[Len(frames')].x = FirstPushed.var
             /\ frames'[Len(frames')].checkpoint2 = Len(undo_stack)
       /\ pc' = "second" =>
             /\ pc = "return"
             /\ result = UNSAT
             /\ assignments[Top.x] = 0
             /\ Len(undo_stack') = Top.checkpoint2
             /\ assignments'[Top.x] = -1
       /\ pc = "second" =>
             /\ result = UNSAT
             /\ Len(undo_stack) = Top.checkpoint2
             /\ FirstPushed.type = ASSIGNMENT
             /\ FirstPushed.var = Top.x
             /\ assignments'[Top.x] = 1
             /\ pc' = "dpll"
       /\ (pc' = "dpll" /\ pc \in SearchPcs) => pc \in {"pick", "second"}
       /\ (pc = "return" /\ result \in {SAT, TIMEOUT}) =>
             /\ assignments' = assignments
             /\ pc' \in {"return", "exit"}]_vars

\* the second recursive call is entered: the variable that was tried with 0
\* now has value 1
C18_Witness ==
    /\ pc = "dpll"
    /\ frames # <<>>
    /\ Top.branch = 2
    /\ assignments[Top.x] = 1
    /\ result = UNSAT

\* x is the first variable of var_sort that is unassigned
FirstUnassignedInOrder(x) ==
    \E k \in 1..Len(var_sort) :
        /\ var_sort[k] = x
        /\ x \in Vars
        /\ assignments[x] = -1
        /\ \A m \in 1..(k - 1) :
              var_sort[m] \in Vars => assignments[var_sort[m]] # -1

\* C19 (pick returns the first unassigned variable in order): when dpll
\* decides, the variable it assigns is the first variable of var_sort that is
\* unassigned; dpll returns UNSAT for want of a variable only when no
\* variable of 1..N is unassigned, variables that occur in no clause
\* included.
C19_PickFirstUnassigned ==
    [][/\ (pc = "pick" /\ pc' = "dpll") => FirstUnassignedInOrder(FirstPushed.var)
       /\ (pc = "pick" /\ pc' = "return") =>
             \A v \in Vars : assignments[v] # -1]_vars

\* var_sort without the entry for index 0, which names no variable
BranchingOrder == Without(var_sort, 0)

\* C20 (descending-occurrence order): the order dpll branches in is a
\* permutation of the variables 1..N, sorted by descending number of
\* occurrences in the formula left by remove_supersets, variables with equal
\* counts in ascending id.
C20_OrderSorted ==
    pc \in SearchPcs =>
        LET order == BranchingOrder
            cnt   == counter(clauses)
        IN  /\ Len(order) = numVars
            /\ Range(order) = Vars
            /\ \A k \in 1..Len(order) : \A m \in 1..Len(order) :
                  k < m =>
                     \/ cnt[order[k]] > cnt[order[m]]
                     \/ cnt[order[k]] = cnt[order[m]] /\ order[k] < order[m]

\* the formula left by remove_supersets holds a clause of size 0
HasEmptyClause == \E i \in 1..Len(clauses) : clauses[i] = <<>>

\* C21 (an empty clause is an immediate conflict): when the formula left by
\* remove_supersets holds a clause of size 0, that clause is in no watcher
\* list, unit_propagate_2watchlit does not return ok, and dpll makes no
\* decision.
C21_EmptyClauseConflict ==
    /\ [](pc \in SearchPcs =>
             \A i \in 1..Len(clauses) :
                clauses[i] = <<>> =>
                   \A w \in DOMAIN watch_lists : i \notin Range(watch_lists[w]))
    /\ [][/\ (pc = "queue" /\ pc' = "pure") => ~HasEmptyClause
          /\ (pc = "pick" /\ pc' = "dpll") => ~HasEmptyClause]_vars

\* the signed literals of a clause, as a set
LiteralSet(c) == {lit_key(c[k]) : k \in 1..Len(c)}

\* parsed clause j subsumes parsed clause i in the sense of the rule
Subsumes(j, i) ==
    /\ j # i
    /\ LiteralSet(parsed[j]) \subseteq LiteralSet(parsed[i])
    /\ Len(parsed[i]) >= Len(parsed[j])

\* the parsed clauses whose index is in keep, in their original order
KeptInOrder(keep) ==
    LET idx == SelectSeq([i \in 1..Len(parsed) |-> i], LAMBDA i : i \in keep)
    IN  [k \in 1..Len(idx) |-> parsed[idx[k]]]

\* C22 (subsumption rule, as stated): remove_supersets removes clause i
\* exactly when some clause j # i has a signed-literal set included in that
\* of i and size(i) >= size(j); the other clauses are kept in their original
\* order.
C22_SubsumptionRule ==
    pc = "watch_table" =>
        clauses = KeptInOrder({i \in 1..Len(parsed) :
                                  ~\E j \in 1..Len(parsed) : Subsumes(j, i)})

\* C22 (amended): clause i is removed exactly when some clause j subsumes it
\* in that sense and either i does not subsume j or j comes after i; of
\* several clauses with the same literal set and the same size the last one
\* is kept.
C22_SubsumptionKeepsLast ==
    pc = "watch_table" =>
        clauses = KeptInOrder({i \in 1..Len(parsed) :
                                  ~\E j \in 1..Len(parsed) :
                                      /\ Subsumes(j, i)
                                      /\ ~Subsumes(i, j) \/ j > i})

\* remove_supersets has run on a file in which two clauses subsume each
\* other, and has kept some clause and removed another
C22_Witness ==
    /\ pc = "watch_table"
    /\ \E i \in 1..Len(parsed) : \E j \in 1..Len(parsed) :
          Subsumes(i, j) /\ Subsumes(j, i)
    /\ clauses # <<>>
    /\ Len(clauses) < Len(parsed)

\* the clause the visit loop examines in this iteration
Visited == clauses[watch_lists[watchlist_index(oplit)][pos]]

\* the iteration takes the re-enqueue branch: the opposite literal is pushed
\* on the queue again
Reenqueues == VisitStep /\ queue' = Append(queue, oplit)

\* C23 (the re-enqueue branch is taken for unit clauses only): an iteration
\* of the visit loop that finds no other watcher and a clause that is not
\* fully falsified, and so pushes the literal on the queue again, examines a
\* clause of size 1; it never does so for a clause of size 2 or more, clauses
\* that repeat a literal included.
C23_ReenqueueOnlyUnit ==
    [][Reenqueues => Len(Visited) = 1]_vars

\* some clause of the formula has every literal false under assignment a
SomeClauseFalse(a) ==
    \E i \in 1..Len(clauses) :
        \A j \in 1..Len(clauses[i]) : is_false(clauses[i][j], a)

\* C24 (conflicts are real): unit_propagate_2watchlit returns conflict only
\* when, under the assignment at that moment, some clause of the formula has
\* every literal false.
C24_ConflictsReal ==
    [][(pc = "visit" /\ pc' = "conflict") => SomeClauseFalse(assignments)]_vars

\* some clause contains literal m and all its other literals are false under a
Implied(m, a) ==
    \E i \in 1..Len(clauses) :
        /\ \E j \in 1..Len(clauses[i]) : clauses[i][j] = m
        /\ \A j \in 1..Len(clauses[i]) :
              clauses[i][j] # m => is_false(clauses[i][j], a)

\* the literal that the step makes true by assigning variable v
MadeTrue(v) == [var |-> v, neg |-> assignments'[v] = 0]

\* every variable the step assigns becomes true on behalf of some clause
ForcedAreImplied ==
    \A v \in 1..numVars :
        (assignments[v] = -1 /\ assignments'[v] # -1) =>
            Implied(MadeTrue(v), assignments)

\* C25 (propagator assignments are implied): whenever the propagator sets a
\* variable, on dequeuing a literal or when forcing the other watcher, some
\* clause contains the literal made true and all its other literals are false
\* under the assignment at that moment.
C25_AssignmentsImplied ==
    [][(pc \in {"queue", "visit"}) => ForcedAreImplied]_vars

\* clause i has no true literal and exactly one unassigned literal
UnitLeft(i) ==
    /\ ~has_true_literal(clauses[i], assignments)
    /\ Cardinality(unassigned_positions(clauses[i], assignments)) = 1

\* C26 (propagation reaches a fixpoint): whenever unit_propagate_2watchlit
\* returns ok inside dpll, no clause has all its literals false and no clause
\* without a true literal has exactly one unassigned literal.
C26_PropagationFixpoint ==
    [][(pc = "queue" /\ pc' = "pure") =>
          /\ ~\E i \in 1..Len(clauses) :
                 clauses[i] # <<>> /\ \A j \in 1..Len(clauses[i]) : is_false(clauses[i][j], assignments)
          /\ ~\E i \in 1..Len(clauses) : UnitLeft(i)]_vars

\* C27 (satisfied flags are sound): at every state of the search a clause
\* whose satisfied flag is set has at least one literal true under the
\* current assignment.
C27_FlagsSound ==
    pc \in SearchPcs =>
        \A i \in 1..Len(clauses) :
            satisfied[i] => has_true_literal(clauses[i], assignments)

\* dpll has rewound its first branch: the decision variable is unassigned
\* again, a clause the decision x = 0 had satisfied carries no flag, and a
\* flag set before the decision still stands on a clause with a true literal
C27_Witness ==
    /\ pc = "second"
    /\ assignments[Top.x] = -1
    /\ \E j \in 1..Len(clauses) :
          /\ ~satisfied[j]
          /\ \E k \in 1..Len(clauses[j]) : clauses[j][k] = [var |-> Top.x, neg |-> TRUE]
    /\ \E i \in 1..Len(clauses) :
          satisfied[i] /\ has_true_literal(clauses[i], assignments)

\* the program run to its end on the pool files and the further input files
FairSpecSamples ==
    /\ InitPool \/ InitSamples \/ InitNoFile
    /\ [][Next]_vars
    /\ WF_vars(Next)

PropagatorPcs == {"propagate", "queue", "visit"}

\* C28 (the propagator terminates): every call of unit_propagate_2watchlit
\* eventually returns, with ok or with a conflict, from every reachable
\* state, the states in which the re-enqueue branch was taken included.
C28_PropagatorTerminates ==
    (pc \in PropagatorPcs) ~> (pc \in {"pure", "conflict"})

\* the propagator has returned ok from a call whose last dequeued literal was
\* one the re-enqueue branch had pushed: the literal was false already, so the
\* list visited last is that of a true literal, and a clause that watches the
\* false literal twice is still without a flag
C28_Witness ==
    /\ pc = "pure"
    /\ oplit # NoLiteral
    /\ is_true(oplit, assignments)
    /\ \E i \in 1..Len(clauses) :
          /\ ~satisfied[i]
          /\ Len(clauses[i]) >= 2
          /\ clauses[i][1] = negate(oplit)
          /\ clauses[i][2] = negate(oplit)

====
